---- MODULE Spec2Model ----
(***************************************************************************)
(* Model of the certificate generator's batch pipeline (src/app.py):       *)
(* validate_data, create_document, create_documents, create_zip_file and   *)
(* the part of main() that drives them.  The dataset is chosen in Init;    *)
(* the template engine and the external converter are the environment,     *)
(* whose result for a row is chosen when that row is processed.            *)
(***************************************************************************)
EXTENDS Integers, Sequences, FiniteSets, TLC

VARIABLES columns, data, pc, i, results, progress, disk, zip, zip_path,
          messages, download, log

vars == <<columns, data, pc, i, results, progress, disk, zip, zip_path,
          messages, download, log>>

(* ---- bounds ---- *)
MaxRows == 3

(* ---- strings as sequences of characters ---- *)
LowerCase == <<"a", "e", "l", "n", "o", "p", "z">>
UpperCase == <<"A", "E", "L", "N", "O", "P", "Z">>

IsLower(c) == \E k \in 1..Len(LowerCase) : LowerCase[k] = c
IsUpper(c) == \E k \in 1..Len(UpperCase) : UpperCase[k] = c
IsCased(c) == IsLower(c) \/ IsUpper(c)

upper(c) == IF IsLower(c)
            THEN UpperCase[CHOOSE k \in 1..Len(LowerCase) : LowerCase[k] = c]
            ELSE c
lower(c) == IF IsUpper(c)
            THEN LowerCase[CHOOSE k \in 1..Len(UpperCase) : UpperCase[k] = c]
            ELSE c

RECURSIVE TitleFrom(_, _, _)
TitleFrom(s, k, prevCased) ==
    IF k > Len(s) THEN <<>>
    ELSE <<IF prevCased THEN lower(s[k]) ELSE upper(s[k])>>
         \o TitleFrom(s, k + 1, IsCased(s[k]))

(* str.title(): first cased character of every word upper, the rest lower *)
title(s) == TitleFrom(s, 1, FALSE)

(* ---- cells of the data frame ---- *)
Str(s) == [type |-> "str", val |-> s]
NaN    == [type |-> "float", val |-> <<>>]

EmptyName == <<>>
AnaLower  == <<"a", "n", "a", " ", "l", "o", "p", "e", "z">>
AnaUpper  == <<"A", "N", "A", " ", "L", "O", "P", "E", "Z">>
AnaTitle  == <<"A", "n", "a", " ", "L", "o", "p", "e", "z">>

(* values a cell of the name column can hold after read_csv / read_excel *)
NameCells == {Str(EmptyName), Str(AnaLower), Str(AnaUpper), NaN}

NameColumn == "Nombre Completo"

(* row.get("Nombre Completo", "") *)
RowGetName(row) == IF NameColumn \in DOMAIN row THEN row[NameColumn]
                   ELSE Str(EmptyName)

(* ---- files ---- *)
OutputDir == "temp_dir"
CertPath(nombre, ext) ==
    [dir |-> OutputDir, name |-> <<"Certificado - ", nombre, ext>>]
basename(p) == p.name
ZipName == [dir |-> OutputDir, name |-> <<"Certificados.zip">>]

None  == [dir |-> "", name |-> <<"None">>]
Unset == [dir |-> "", name |-> <<"unset">>]
NoZip == [written |-> FALSE, entries |-> <<>>]

(* ---- the environment's answer for one row ---- *)
ConvResults == {"ok", "nonzero", "nofile"}
ReturnCode(conv) == IF conv = "nonzero" THEN 1 ELSE 0

(* validate_data without the membership test *)
validate_data_NoCheck(cols) == TRUE

(* validate_data *)
validate_data(cols) == NameColumn \in cols

(* create_document: the dict it returns, or the exception that leaves it.  *)
(* renderOk: doc.render/doc.save complete; conv: what the converter does.  *)
create_document(row, renderOk, conv) ==
    LET cell == RowGetName(row) IN
    IF cell.type # "str"
    THEN \* .title() raises inside try; the handler reads the unbound nombre
         [raised |-> TRUE, exc |-> "UnboundLocalError"]
    ELSE LET nombre == title(cell.val) IN
         IF ~renderOk
         THEN [raised |-> FALSE,
               result |-> [status |-> "error", message |-> "render",
                           nombre |-> nombre]]
         ELSE IF ReturnCode(conv) # 0
         THEN [raised |-> FALSE,
               result |-> [status |-> "error", message |-> "convert"]]
         ELSE [raised |-> FALSE,
               result |-> [status |-> "success",
                           file |-> CertPath(nombre, ".pdf"),
                           nombre |-> nombre]]

(* files create_document leaves in output_dir *)
DiskAfterDocument(d, row, renderOk, conv) ==
    LET cell == RowGetName(row) IN
    IF cell.type # "str" \/ ~renderOk THEN d
    ELSE LET nombre == title(cell.val) IN
         d \cup {CertPath(nombre, ".docx")}
           \cup (IF conv = "ok" THEN {CertPath(nombre, ".pdf")} ELSE {})

(* did create_document get as far as running the converter *)
ConverterRan(row, renderOk) == RowGetName(row).type = "str" /\ renderOk

(* ---- create_zip_file ---- *)
RECURSIVE SuccessfulFiles(_)
SuccessfulFiles(rs) ==
    IF rs = <<>> THEN <<>>
    ELSE (IF Head(rs).status = "success" THEN <<Head(rs).file>> ELSE <<>>)
         \o SuccessfulFiles(Tail(rs))

(* a write loop that keeps one entry per archive name *)
RECURSIVE ZipWrite_Dedup(_, _)
ZipWrite_Dedup(files, d) ==
    IF files = <<>> THEN [entries |-> <<>>, raised |-> FALSE]
    ELSE IF Head(files) \notin d THEN [entries |-> <<>>, raised |-> TRUE]
    ELSE LET rest == ZipWrite_Dedup(Tail(files), d)
             dup  == \E k \in 1..Len(rest.entries) :
                        rest.entries[k] = basename(Head(files))
         IN
         [entries |-> (IF dup THEN <<>> ELSE <<basename(Head(files))>>)
                      \o rest.entries,
          raised  |-> rest.raised]

(* the zipf.write loop: entries written until a source file is missing *)
RECURSIVE ZipWrite(_, _)
ZipWrite(files, d) ==
    IF files = <<>> THEN [entries |-> <<>>, raised |-> FALSE]
    ELSE IF Head(files) \notin d THEN [entries |-> <<>>, raised |-> TRUE]
    ELSE LET rest == ZipWrite(Tail(files), d) IN
         [entries |-> <<basename(Head(files))>> \o rest.entries,
          raised  |-> rest.raised]

create_zip_file(rs, d) ==
    LET successful_files == SuccessfulFiles(rs) IN
    IF successful_files = <<>>
    THEN [ret |-> None, zip |-> NoZip, msg |-> <<[kind |-> "zip_none", n |-> 0]>>]
    ELSE LET w == ZipWrite(successful_files, d) IN
         IF w.raised
         THEN [ret |-> None, zip |-> [written |-> TRUE, entries |-> w.entries],
               msg |-> <<[kind |-> "zip_error", n |-> 0]>>]
         ELSE [ret |-> ZipName, zip |-> [written |-> TRUE, entries |-> w.entries],
               msg |-> <<>>]

(* ---- progress events: fractions num/den ---- *)
Frac(n, d) == [num |-> n, den |-> d]
FracLeq(a, b) == a.num * b.den <= b.num * a.den
One == Frac(1, 1)

(* ---- datasets ---- *)
RowsOver(cells) ==
    UNION {[1..n -> {[c \in {NameColumn} |-> x] : x \in cells}] : n \in 0..MaxRows}
RowsWithout == UNION {[1..n -> {[c \in {"Cargo"} |-> Str(EmptyName)]}] : n \in 0..MaxRows}

Init ==
    /\ \/ columns = {NameColumn, "Cargo"} /\ data \in RowsOver(NameCells)
       \/ columns = {"Cargo"} /\ data \in RowsWithout
    /\ pc = "validate"
    /\ i = 0
    /\ results = <<>>
    /\ progress = <<>>
    /\ disk = {}
    /\ zip = NoZip
    /\ zip_path = Unset
    /\ messages = <<>>
    /\ download = FALSE
    /\ log = <<>>

(* main, lines 243-246 *)
Validate ==
    /\ pc = "validate"
    /\ IF validate_data(columns)
       THEN /\ pc' = "button"
            /\ messages' = Append(messages, [kind |-> "info", n |-> Len(data)])
       ELSE /\ pc' = "stopped"
            /\ messages' = Append(messages, [kind |-> "missing_columns", n |-> 0])
    /\ UNCHANGED <<columns, data, i, results, progress, disk, zip, zip_path,
                   download, log>>

(* main, lines 249-257, and the head of create_documents *)
ClickGenerate ==
    /\ pc = "button"
    /\ progress' = <<Frac(0, 1)>>
    /\ results' = <<>>
    /\ i' = 0
    /\ pc' = "loop"
    /\ UNCHANGED <<columns, data, disk, zip, zip_path, messages, download, log>>

(* one iteration of the loop of create_documents *)
ProcessRow ==
    /\ pc = "loop"
    /\ i < Len(data)
    /\ \E renderOk \in BOOLEAN, conv \in ConvResults :
         LET row == data[i + 1]
             out == create_document(row, renderOk, conv)
             ran == ConverterRan(row, renderOk)
         IN
         /\ ran \/ conv = "ok"       \* conv is only a choice when it runs
         /\ (RowGetName(row).type = "str") \/ renderOk
         /\ progress' = Append(progress, Frac(i, Len(data)))
         /\ disk' = DiskAfterDocument(disk, row, renderOk, conv)
         /\ log' = Append(log, [render |-> IF RowGetName(row).type # "str"
                                           THEN "none"
                                           ELSE IF renderOk THEN "ok" ELSE "raise",
                                conv |-> IF ran THEN conv ELSE "none"])
         /\ IF out.raised
            THEN \* propagates through create_documents to main's except
                 /\ pc' = "error"
                 /\ messages' = Append(messages, [kind |-> "unexpected", n |-> 0])
                 /\ UNCHANGED <<results, i>>
            ELSE /\ results' = Append(results, out.result)
                 /\ i' = i + 1
                 /\ pc' = "loop"
                 /\ messages' = IF out.result.status = "error"
                                THEN Append(messages, [kind |-> "row_warning", n |-> i + 1])
                                ELSE messages
    /\ UNCHANGED <<columns, data, zip, zip_path, download>>

(* create_documents, lines 138-140 *)
FinishLoop ==
    /\ pc = "loop"
    /\ i = Len(data)
    /\ progress' = Append(progress, One)
    /\ pc' = "stats"
    /\ UNCHANGED <<columns, data, i, results, disk, zip, zip_path, messages,
                   download, log>>

Count(rs, st) == Cardinality({k \in 1..Len(rs) : rs[k].status = st})

(* main, lines 259-285 *)
Assemble ==
    /\ pc = "stats"
    /\ LET successful == Count(results, "success")
           failed == Len(results) - successful
       IN
       IF successful > 0
       THEN LET z == create_zip_file(results, disk) IN
            /\ zip' = z.zip
            /\ zip_path' = z.ret
            /\ IF z.ret # None
               THEN /\ messages' = messages \o z.msg
                         \o <<[kind |-> "success", n |-> successful]>>
                         \o (IF failed > 0
                             THEN <<[kind |-> "failed", n |-> failed]>>
                             ELSE <<>>)
                    /\ download' = TRUE
               ELSE /\ messages' = messages \o z.msg
                    /\ download' = FALSE
       ELSE /\ messages' = Append(messages, [kind |-> "none_generated", n |-> 0])
            /\ UNCHANGED <<zip, zip_path, download>>
    /\ pc' = "done"
    /\ UNCHANGED <<columns, data, i, results, progress, disk, log>>

Next == Validate \/ ClickGenerate \/ ProcessRow \/ FinishLoop \/ Assemble

Spec == Init /\ [][Next]_vars

(* ======================= properties ======================= *)

(* create_documents is over: it returned, or an exception left it *)
BatchEnded == pc \in {"stats", "done", "error"}

IsSuccess(r) == r.status = "success"
IsFailure(r) == r.status = "error"

(* the step of row k that raised, if any *)
StepRaised(k) == log[k].render \in {"none", "raise"} \/ log[k].conv = "nonzero"

RECURSIVE ExpectedEntries(_)
ExpectedEntries(rs) ==
    IF rs = <<>> THEN <<>>
    ELSE (IF IsSuccess(Head(rs)) THEN <<Head(rs).file.name>> ELSE <<>>)
         \o ExpectedEntries(Tail(rs))

(* C1: an error raised in any step of a row (name derivation, render,     *)
(* save, conversion) becomes a Failure outcome of that row; no row error   *)
(* leaves create_document or create_documents.                             *)
C1_RowErrorsContained ==
    /\ pc # "error"
    /\ \A k \in 1..Len(log) :
          StepRaised(k) => k <= Len(results) /\ IsFailure(results[k])

(* C2: one outcome per processed row, in row order; N outcomes once the    *)
(* batch is over.                                                          *)
C2_OneOutcomePerRow ==
    /\ Len(results) = Len(log)
    /\ BatchEnded => Len(results) = Len(data)
    /\ \A k \in 1..Len(results) :
          "nombre" \in DOMAIN results[k]
             => results[k].nombre = title(RowGetName(data[k]).val)

(* C3: every Success that reaches create_zip_file names a file on disk; a  *)
(* converter run that exits zero without writing the PDF gives a Failure.  *)
C3_SuccessFileExists ==
    /\ pc \in {"stats", "done"}
          => \A k \in 1..Len(results) :
                IsSuccess(results[k]) => results[k].file \in disk
    /\ \A k \in 1..Len(results) :
          log[k].conv = "nofile" => IsFailure(results[k])

(* C4: a dataset without the name column stops after one validation error; *)
(* create_documents is never entered, nothing is rendered or converted and *)
(* no outcome record exists.                                               *)
C4_MissingColumnStops ==
    NameColumn \notin columns =>
       /\ pc \in {"validate", "stopped"}
       /\ results = <<>> /\ progress = <<>> /\ log = <<>> /\ disk = {}
       /\ ~zip.written /\ ~download
       /\ pc = "validate" => messages = <<>>
       /\ pc = "stopped" => messages = <<[kind |-> "missing_columns", n |-> 0]>>

C4_Witness ==
    /\ NameColumn \notin columns
    /\ Len(data) >= 2
    /\ pc = "stopped"
    /\ Len(messages) = 1

(* C5: one progress event before each row and a final one after the last  *)
(* row whatever failed; the values never decrease, start at >= 0 and end   *)
(* at 1.0.                                                                 *)
C5_Progress ==
    /\ \A k \in 1..(Len(progress) - 1) : FracLeq(progress[k], progress[k + 1])
    /\ progress # <<>> => progress[1].num >= 0
    /\ pc = "loop" => Len(progress) = 1 + Len(log)
    /\ BatchEnded => /\ progress[Len(progress)] = One
                     /\ Len(progress) = Len(data) + 2

(* no step of any row failed *)
NoRowMalformed ==
    /\ Len(log) = Len(data)
    /\ \A k \in 1..Len(log) : log[k].render = "ok" /\ log[k].conv = "ok"

(* C6: when no row is malformed (equal display names included) the batch   *)
(* gives N outcomes, all Success, and the archive holds N entries.         *)
C6_AllSucceed ==
    (pc = "done" /\ NoRowMalformed) =>
       /\ Len(results) = Len(data)
       /\ \A k \in 1..Len(results) : IsSuccess(results[k])
       /\ Len(zip.entries) = Len(data)
       /\ Len(data) > 0 => zip.written /\ zip_path = ZipName /\ download

C6_Witness ==
    /\ pc = "done" /\ NoRowMalformed
    /\ Len(data) >= 2
    /\ data[1] # data[2]
    /\ results[1].nombre = results[2].nombre
    /\ results[1].nombre = AnaTitle
    /\ Len(zip.entries) = Len(data)

(* C7: a finished batch with at least one Success offers an archive for    *)
(* download together with the success count, whatever other rows did.      *)
C7_ArchiveOffered ==
    (pc = "done" /\ Count(results, "success") > 0) =>
       /\ zip.written /\ zip_path = ZipName /\ download
       /\ \E m \in 1..Len(messages) :
             messages[m] = [kind |-> "success", n |-> Count(results, "success")]

(* C8: create_zip_file returns None and writes nothing when no outcome is  *)
(* a Success; otherwise it writes one archive whose entries are the base   *)
(* names of the Success files, in order, and returns its path.             *)
C8_ZipContents ==
    pc = "stats" =>
       LET z == create_zip_file(results, disk) IN
       IF Count(results, "success") = 0
       THEN z.ret = None /\ ~z.zip.written
       ELSE /\ z.ret = ZipName
            /\ z.zip.written
            /\ z.zip.entries = ExpectedEntries(results)

(* C9: a row whose name is the empty string gets a Failure outcome and no  *)
(* file of it enters the archive.                                          *)
C9_EmptyNameFails ==
    \A k \in 1..Len(results) :
       RowGetName(data[k]) = Str(EmptyName) =>
          /\ IsFailure(results[k])
          /\ \A e \in 1..Len(zip.entries) :
                zip.entries[e] # CertPath(EmptyName, ".pdf").name

(* the converter ran, and exited non-zero every time it ran *)
ConverterAlwaysFails ==
    /\ \E k \in 1..Len(log) : log[k].conv = "nonzero"
    /\ \A k \in 1..Len(log) : log[k].conv \in {"nonzero", "none"}

(* C10: with a converter that always exits non-zero every row is a         *)
(* Failure, no archive is produced and no exception leaves the batch.      *)
C10_ConverterDown ==
    (pc \in {"done", "error"} /\ ConverterAlwaysFails) =>
       /\ pc # "error"
       /\ Len(results) = Len(data)
       /\ \A k \in 1..Len(results) : IsFailure(results[k])
       /\ ~zip.written /\ ~download

====
